---------------------------- MODULE Spec2Model ----------------------------
(***************************************************************************)
(* Credit-Risk-Scoring-System: the serving pipeline of                     *)
(* src/src/inference.py (CreditScoringModel.predict) together with the     *)
(* batch transformations it reuses (src/src/data_cleaning.py,              *)
(* src/src/feature_engineering.py) and the REST entry point                *)
(* (src/app/api.py).                                                       *)
(*                                                                         *)
(* A pandas DataFrame is a record [nrows, cols]; cols is the ordered list  *)
(* of columns, each [name, dtype, cells], dtype "object" for a column of   *)
(* strings or None and "num" otherwise.  A column name is a sequence of    *)
(* tokens:                                                                 *)
(* a token is either a run of characters of [A-Za-z0-9_] or a run of other *)
(* characters (SpecialTokens), so that the renaming of                     *)
(* run_feature_engineering can be computed.  A cell is a record            *)
(* [k, n, d, s]: a number n/d (exact rational standing for the float), a   *)
(* NaN/None, a signed infinity, or a string (token sequence s).            *)
(***************************************************************************)
EXTENDS Integers, Sequences, FiniteSets, TLC

(***************************************************************************)
(* Cells                                                                   *)
(***************************************************************************)
Abs(x) == IF x < 0 THEN -x ELSE x

RECURSIVE Gcd(_, _)
Gcd(a, b) == IF b = 0 THEN a ELSE Gcd(b, a % b)

Rat(n, d) ==
    LET g == Gcd(Abs(n), Abs(d))
        s == IF d < 0 THEN -1 ELSE 1
    IN  [k |-> "num", n |-> (s * n) \div g, d |-> (s * d) \div g, s |-> <<>>]

Num(n) == [k |-> "num", n |-> n, d |-> 1, s |-> <<>>]

NaN == [k |-> "nan", n |-> 0, d |-> 1, s |-> <<>>]

Inf(sign) == [k |-> "inf", n |-> sign, d |-> 1, s |-> <<>>]

Str(tokens) == [k |-> "str", n |-> 0, d |-> 1, s |-> tokens]

IsNull(c) == c.k = "nan"

Sign(n) == IF n > 0 THEN 1 ELSE IF n < 0 THEN -1 ELSE 0

\* float division of pandas/numpy: x/0 is a signed infinity, 0/0 and every
\* operation on NaN is NaN; nothing is raised
Div(a, b) ==
    IF a.k = "nan" \/ b.k = "nan" THEN NaN
    ELSE IF a.k = "inf" /\ b.k = "inf" THEN NaN
    ELSE IF a.k = "inf" THEN Inf(a.n * (IF b.n < 0 THEN -1 ELSE 1))
    ELSE IF b.k = "inf" THEN Num(0)
    ELSE IF b.n = 0 THEN (IF a.n = 0 THEN NaN ELSE Inf(Sign(a.n)))
    ELSE Rat(a.n * b.d, a.d * b.n)

AbsCell(a) ==
    IF a.k = "num" THEN [a EXCEPT !.n = Abs(a.n)]
    ELSE IF a.k = "inf" THEN Inf(1)
    ELSE a

(***************************************************************************)
(* Column names                                                            *)
(***************************************************************************)
SpecialTokens == {" ", " / ", "-", ","}

N(s) == <<s>>

RECURSIVE Join(_)
Join(tokens) ==
    IF tokens = <<>> THEN "" ELSE Head(tokens) \o Join(Tail(tokens))

IsWord(t) == t \notin SpecialTokens

\* re.sub('[^A-Za-z0-9_]+', '', x)
CleanName(name) == <<Join(SelectSeq(name, IsWord))>>

(***************************************************************************)
(* Frames                                                                  *)
(***************************************************************************)
Range(s) == {s[i] : i \in DOMAIN s}

Names(df) == [i \in DOMAIN df.cols |-> df.cols[i].name]

HasCol(df, name) == \E i \in DOMAIN df.cols : df.cols[i].name = name

ColIndex(df, name) == CHOOSE i \in DOMAIN df.cols : df.cols[i].name = name

Cells(df, name) == df.cols[ColIndex(df, name)].cells

\* df[name] = cells: overwrite in place, or append a new last column
SetCol(df, name, cells) ==
    IF HasCol(df, name)
    THEN [df EXCEPT !.cols[ColIndex(df, name)] =
                        [name |-> name, dtype |-> "num", cells |-> cells]]
    ELSE [df EXCEPT !.cols =
                        Append(@, [name |-> name, dtype |-> "num", cells |-> cells])]

EmptyFrame == [nrows |-> 0, cols |-> <<>>]

\* pd.DataFrame([data]): one row, columns in the key order of the dict
DataFrame(data) ==
    [nrows |-> 1,
     cols  |-> [i \in DOMAIN data |->
                  [name  |-> data[i].name,
                   dtype |-> IF data[i].val.k \in {"str", "nan"}
                             THEN "object" ELSE "num",
                   cells |-> <<data[i].val>>]]]

\* the outcome of a call: a frame, or the exception it raised
Ok(df) == [ok |-> TRUE, df |-> df, err |-> ""]

Raise(err) == [ok |-> FALSE, df |-> EmptyFrame, err |-> err]

Then(r, Op(_)) == IF r.ok THEN Op(r.df) ELSE r

(***************************************************************************)
(* src/src/data_cleaning.py                                                *)
(***************************************************************************)
DAYS_EMPLOYED == N("DAYS_EMPLOYED")
DAYS_EMPLOYED_ANOM == N("DAYS_EMPLOYED_ANOM")
CODE_GENDER == N("CODE_GENDER")

AnomalyValue == 365243

XNA == Str(<<"XNA">>)

clean_employment_anomaly(df) ==
    IF ~HasCol(df, DAYS_EMPLOYED) THEN Raise("KeyError: DAYS_EMPLOYED")
    ELSE LET emp  == Cells(df, DAYS_EMPLOYED)
             flag == [i \in 1..df.nrows |->
                        IF emp[i] = Num(AnomalyValue) THEN Num(1) ELSE Num(0)]
             repl == [i \in 1..df.nrows |->
                        IF emp[i] = Num(AnomalyValue) THEN NaN ELSE emp[i]]
         IN  Ok(SetCol(SetCol(df, DAYS_EMPLOYED_ANOM, flag), DAYS_EMPLOYED, repl))

\* df[mask]: the rows whose index is in keep, in order
SelectRows(df, keep) ==
    LET idx == SelectSeq([i \in 1..df.nrows |-> i], LAMBDA i : i \in keep)
    IN  [nrows |-> Len(idx),
         cols  |-> [c \in DOMAIN df.cols |->
                      [df.cols[c] EXCEPT
                         !.cells = [j \in 1..Len(idx) |-> df.cols[c].cells[idx[j]]]]]]

clean_gender_code(df) ==
    IF ~HasCol(df, CODE_GENDER) THEN Raise("KeyError: CODE_GENDER")
    ELSE Ok(SelectRows(df, {i \in 1..df.nrows : Cells(df, CODE_GENDER)[i] # XNA}))

NullCount(col) == Cardinality({i \in DOMAIN col.cells : IsNull(col.cells[i])})

\* missing_percent = 100 * nulls / len(df); on a frame without rows the
\* quotient 0/0 is NaN and compares False with the threshold
drop_high_missing_cols(df, threshold) ==
    LET Keep(col) == ~(df.nrows > 0 /\ 100 * NullCount(col) > threshold * df.nrows)
    IN  Ok([df EXCEPT !.cols = SelectSeq(@, Keep)])

MissingThreshold == 50

DropAt50(df) == drop_high_missing_cols(df, MissingThreshold)

run_cleaning_pipeline(df) ==
    Then(Then(clean_employment_anomaly(df), clean_gender_code), DropAt50)

(***************************************************************************)
(* src/src/feature_engineering.py                                          *)
(***************************************************************************)
AMT_CREDIT == N("AMT_CREDIT")
AMT_INCOME_TOTAL == N("AMT_INCOME_TOTAL")
AMT_ANNUITY == N("AMT_ANNUITY")
AMT_GOODS_PRICE == N("AMT_GOODS_PRICE")
DAYS_ID_PUBLISH == N("DAYS_ID_PUBLISH")
DAYS_BIRTH == N("DAYS_BIRTH")

DaysPerYear == 365

ColDiv(a, b) == [i \in DOMAIN a |-> Div(a[i], b[i])]

ColAbsYears(a) == [i \in DOMAIN a |-> Div(AbsCell(a[i]), Num(DaysPerYear))]

DomainInputs ==
    <<AMT_CREDIT, AMT_INCOME_TOTAL, AMT_ANNUITY, AMT_GOODS_PRICE,
      DAYS_ID_PUBLISH, DAYS_BIRTH>>

\* the dtype of the column named name
TypeOf(df, name) == df.cols[ColIndex(df, name)].dtype

\* the dtype of the result of an operation on columns a and b: object when
\* an operand is object
ResultType(df, a, b) ==
    IF TypeOf(df, a) = "object" \/ TypeOf(df, b) = "object" THEN "object" ELSE "num"

\* df[name] = a column of the given dtype
SetTyped(df, name, dtype, cells) ==
    LET d == SetCol(df, name, cells)
    IN  [d EXCEPT !.cols[ColIndex(d, name)].dtype = dtype]

\* an object column (a None or a string in the row) as an operand raises
\* TypeError; on a frame without rows nothing is computed and nothing is
\* raised, the result is an empty column of dtype object
create_domain_features(df) ==
    IF \E i \in DOMAIN DomainInputs : ~HasCol(df, DomainInputs[i])
    THEN LET i == CHOOSE j \in DOMAIN DomainInputs : ~HasCol(df, DomainInputs[j])
         IN  Raise("KeyError: " \o Join(DomainInputs[i]))
    ELSE IF /\ df.nrows > 0
            /\ \E i \in DOMAIN DomainInputs : TypeOf(df, DomainInputs[i]) = "object"
    THEN Raise("TypeError")
    ELSE LET d1 == SetTyped(df, N("CREDIT_INCOME_PERCENT"),
                            ResultType(df, AMT_CREDIT, AMT_INCOME_TOTAL),
                            ColDiv(Cells(df, AMT_CREDIT), Cells(df, AMT_INCOME_TOTAL)))
             d2 == SetTyped(d1, N("ANNUITY_INCOME_PERCENT"),
                            ResultType(d1, AMT_ANNUITY, AMT_INCOME_TOTAL),
                            ColDiv(Cells(d1, AMT_ANNUITY), Cells(d1, AMT_INCOME_TOTAL)))
             d3 == SetTyped(d2, N("CREDIT_TERM"),
                            ResultType(d2, AMT_CREDIT, AMT_ANNUITY),
                            ColDiv(Cells(d2, AMT_CREDIT), Cells(d2, AMT_ANNUITY)))
             d4 == SetTyped(d3, N("GOODS_LOAN_RATIO"),
                            ResultType(d3, AMT_GOODS_PRICE, AMT_CREDIT),
                            ColDiv(Cells(d3, AMT_GOODS_PRICE), Cells(d3, AMT_CREDIT)))
             d5 == SetTyped(d4, N("ID_AGE_YEARS"),
                            TypeOf(d4, DAYS_ID_PUBLISH),
                            ColAbsYears(Cells(d4, DAYS_ID_PUBLISH)))
             client_age_years == ColAbsYears(Cells(d5, DAYS_BIRTH))
         IN  Ok(SetTyped(d5, N("ID_TO_AGE_RATIO"),
                         ResultType(d5, N("ID_AGE_YEARS"), DAYS_BIRTH),
                         ColDiv(Cells(d5, N("ID_AGE_YEARS")), client_age_years)))

\* the category values of the model in the order Python sorts them
CategoryOrder ==
    << <<"Cash", " ", "loans">>, <<"F">>, <<"M">>, <<"Married">>,
       <<"Revolving", " ", "loans">>,
       <<"Secondary", " / ", "secondary", " ", "special">>,
       <<"Single", " / ", "not", " ", "married">>, <<"XNA">> >>

\* the sorted distinct non-null values of a column
Levels(col) ==
    SelectSeq(CategoryOrder,
              LAMBDA v : \E i \in DOMAIN col.cells : col.cells[i] = Str(v))

\* the indicator columns of one categorical column, first level dropped
Dummies(col) ==
    LET kept == Tail(Levels(col))
    IN  [j \in DOMAIN kept |->
           [name  |-> col.name \o <<"_">> \o kept[j],
            dtype |-> "num",
            cells |-> [i \in DOMAIN col.cells |->
                         IF col.cells[i] = Str(kept[j]) THEN Num(1) ELSE Num(0)]]]

RECURSIVE AllDummies(_)
AllDummies(cols) ==
    IF cols = <<>> THEN <<>>
    ELSE (IF Levels(Head(cols)) = <<>> THEN <<>> ELSE Dummies(Head(cols)))
         \o AllDummies(Tail(cols))

\* pd.get_dummies(df, columns=<object columns>, drop_first=True)
encode_categoricals(df) ==
    LET IsCat(col)  == col.dtype = "object"
        NotCat(col) == col.dtype # "object"
    IN  Ok([df EXCEPT !.cols =
                SelectSeq(df.cols, NotCat) \o AllDummies(SelectSeq(df.cols, IsCat))])

RenameColumns(df) ==
    Ok([df EXCEPT !.cols =
           [i \in DOMAIN df.cols |-> [df.cols[i] EXCEPT !.name = CleanName(@)]]])

run_feature_engineering(df) ==
    Then(Then(create_domain_features(df), encode_categoricals), RenameColumns)

(***************************************************************************)
(* src/src/inference.py: alignment                                         *)
(***************************************************************************)
FillValue == 0

HasDuplicates(s) == \E i, j \in DOMAIN s : i < j /\ s[i] = s[j]

\* reindex without fill_value: a missing column is filled with NaN
reindex_nofill(df, features) ==
    IF HasDuplicates(Names(df)) /\ Names(df) # features
    THEN Raise("ValueError: cannot reindex on an axis with duplicate labels")
    ELSE Ok([df EXCEPT !.cols =
               [i \in DOMAIN features |->
                  IF HasCol(df, features[i])
                  THEN df.cols[ColIndex(df, features[i])]
                  ELSE [name  |-> features[i],
                        dtype |-> "num",
                        cells |-> [r \in 1..df.nrows |-> NaN]]]])

\* df.reindex(columns=features, fill_value=0)
reindex(df, features) ==
    IF HasDuplicates(Names(df)) /\ Names(df) # features
    THEN Raise("ValueError: cannot reindex on an axis with duplicate labels")
    ELSE Ok([df EXCEPT !.cols =
               [i \in DOMAIN features |->
                  IF HasCol(df, features[i])
                  THEN df.cols[ColIndex(df, features[i])]
                  ELSE [name  |-> features[i],
                        dtype |-> "num",
                        cells |-> [r \in 1..df.nrows |-> Num(FillValue)]]]])

preprocess_input(data, features) ==
    LET Reindex(df) == reindex(df, features)
    IN  Then(Then(run_cleaning_pipeline(DataFrame(data)), run_feature_engineering),
             Reindex)

(***************************************************************************)
(* src/src/inference.py: the classifier and the explainer (external        *)
(* capabilities: xgboost predict_proba, shap TreeExplainer).  A loaded     *)
(* model is one deterministic function of the aligned frame; which one is  *)
(* fixed by the artifact (model \in Classifiers).  Probabilities are       *)
(* integers in units of 1/ProbScale, contributions in units of             *)
(* 1/ShapScale.                                                            *)
(***************************************************************************)
ProbScale == 1000 * 1000

ShapScale == 100 * 1000

ProbTable ==
    <<0, 73400, 199999, 200000, 350000, 499999, 500000, 926600, 999999, ProbScale>>

ShapTable == <<30, -30, 3, -3, 0, 1204, -1204, 250, 4, -250, 12346>>

CellCode(c) ==
    IF c.k = "num" THEN (Abs(c.n) % 5) + 1 ELSE IF c.k = "nan" THEN 7 ELSE 11

RECURSIVE Fingerprint(_, _)
Fingerprint(df, i) ==
    IF i = 0 THEN 0
    ELSE i * CellCode(df.cols[i].cells[1]) + Fingerprint(df, i - 1)

HasInf(df) ==
    \E i \in DOMAIN df.cols : \E r \in DOMAIN df.cols[i].cells :
        df.cols[i].cells[r].k = "inf"

\* self.model.predict_proba(df)[0][1]
PredictProba(model, df) ==
    ProbTable[((model + Fingerprint(df, Len(df.cols))) % Len(ProbTable)) + 1]

\* self.explainer.shap_values(df)[0]: one contribution per column
ShapValues(model, df) ==
    [i \in DOMAIN df.cols |->
        ShapTable[((3 * model + i * i + Fingerprint(df, Len(df.cols)))
                     % Len(ShapTable)) + 1]]

(***************************************************************************)
(* src/src/inference.py: score, tier, explanation                          *)
(***************************************************************************)
ScoreMax == 1000

\* int(pd_score * 1000): the score rises with the probability
CreditScore_rising(p) == (p * ScoreMax) \div ProbScale

\* round((1 - pd_score) * 1000) in place of int(...)
CreditScore_rounded(p) ==
    LET v == (ProbScale - p) * ScoreMax
    IN  IF 2 * (v % ProbScale) >= ProbScale
        THEN (v \div ProbScale) + 1 ELSE v \div ProbScale

\* int((1 - pd_score) * 1000): int() truncates toward zero
CreditScore(p) == ((ProbScale - p) * ScoreMax) \div ProbScale

LowThreshold == 20 * (ProbScale \div 100)

MediumThreshold == 50 * (ProbScale \div 100)

\* <= in place of < at both thresholds
Tier_inclusive(p) ==
    IF p <= LowThreshold THEN "Low Risk"
    ELSE IF p <= MediumThreshold THEN "Medium Risk"
    ELSE "High Risk"

Tier(p) ==
    IF p < LowThreshold THEN "Low Risk"
    ELSE IF p < MediumThreshold THEN "Medium Risk"
    ELSE "High Risk"

Decision(p) ==
    IF p < LowThreshold THEN "APPROVE"
    ELSE IF p < MediumThreshold THEN "MANUAL REVIEW"
    ELSE "REJECT"

\* round(x, 4) of a value x = v/scale, in units of 1/10000 (numpy rounds the
\* scaled value half to even)
RoundHalfEven(v, unit) ==
    LET q == Abs(v) \div unit
        r == Abs(v) % unit
        m == IF 2 * r > unit \/ (2 * r = unit /\ q % 2 = 1) THEN q + 1 ELSE q
    IN  Sign(v) * m

\* the value cut to 4 decimals in place of rounded
Round4_truncated(v, scale) == Sign(v) * (Abs(v) \div (scale \div 10000))

Round4(v, scale) == RoundHalfEven(v, scale \div 10000)

TopN == 5

\* a sort that is not stable: x goes in front of the elements of equal key
InsertDesc_unstable(sorted, x) ==
    LET before == SelectSeq(sorted, LAMBDA y : Abs(y.val) > Abs(x.val))
        after  == SelectSeq(sorted, LAMBDA y : Abs(y.val) <= Abs(x.val))
    IN  before \o <<x>> \o after

\* list.sort(key=lambda x: abs(x[1]), reverse=True): stable, elements of
\* equal key keep their order; x goes behind every element of key >= its own
InsertDesc(sorted, x) ==
    LET before == SelectSeq(sorted, LAMBDA y : Abs(y.val) >= Abs(x.val))
        after  == SelectSeq(sorted, LAMBDA y : Abs(y.val) < Abs(x.val))
    IN  before \o <<x>> \o after

\* the elements of rest put one by one, in their order, into done
RECURSIVE SortInto(_, _)
SortInto(done, rest) ==
    IF rest = <<>> THEN done
    ELSE SortInto(InsertDesc(done, Head(rest)), Tail(rest))

SortByAbsDesc(pairs) == SortInto(<<>>, pairs)

Min(a, b) == IF a < b THEN a ELSE b

\* zip(self.features, vals[0])
Zip(features, vals) ==
    [i \in 1..Min(Len(features), Len(vals)) |->
        [feat |-> features[i], val |-> vals[i]]]

\* >= in place of >
Direction_nonneg(impact) == IF impact >= 0 THEN "INCREASES Risk" ELSE "REDUCES Risk"

Direction(impact) == IF impact > 0 THEN "INCREASES Risk" ELSE "REDUCES Risk"

get_top_factors(features, vals) ==
    LET feature_importance == SortByAbsDesc(Zip(features, vals))
        top == SubSeq(feature_importance, 1, Min(TopN, Len(feature_importance)))
    IN  [i \in DOMAIN top |->
           [feature   |-> top[i].feat,
            impact    |-> Round4(top[i].val, ShapScale),
            direction |-> Direction(top[i].val)]]

(***************************************************************************)
(* Requests: the applications a caller can send                            *)
(***************************************************************************)
Field(name, val) == [name |-> name, val |-> val]

SK_ID_CURR == N("SK_ID_CURR")
NAME_CONTRACT_TYPE == N("NAME_CONTRACT_TYPE")
EXT_SOURCE_1 == N("EXT_SOURCE_1")
EXT_SOURCE_2 == N("EXT_SOURCE_2")
EXT_SOURCE_3 == N("EXT_SOURCE_3")
NAME_EDUCATION_TYPE == N("NAME_EDUCATION_TYPE")
NAME_FAMILY_STATUS == N("NAME_FAMILY_STATUS")

\* a key that is not a column of the data set and is renamed to AMT_CREDIT
ExtraKey == <<"AMT_", " ", "CREDIT">>

\* the payload of render_sidebar_form, in its key order
FullApplication(contract, gender, employed) ==
    << Field(SK_ID_CURR, Num(100003)),
       Field(NAME_CONTRACT_TYPE, Str(contract)),
       Field(CODE_GENDER, Str(gender)),
       Field(AMT_INCOME_TOTAL, Num(200000)),
       Field(AMT_CREDIT, Num(1000000)),
       Field(AMT_ANNUITY, Num(50000)),
       Field(AMT_GOODS_PRICE, Num(900000)),
       Field(DAYS_BIRTH, Num(-10000)),
       Field(DAYS_EMPLOYED, Num(employed)),
       Field(DAYS_ID_PUBLISH, Num(-291)),
       Field(EXT_SOURCE_2, Rat(1, 2)),
       Field(EXT_SOURCE_3, Rat(1, 2)),
       Field(EXT_SOURCE_1, Rat(1, 2)),
       Field(NAME_EDUCATION_TYPE,
             Str(<<"Secondary", " / ", "secondary", " ", "special">>)),
       Field(NAME_FAMILY_STATUS, Str(<<"Married">>)),
       Field(ExtraKey, Num(1)) >>

RequiredKeys ==
    {SK_ID_CURR, NAME_CONTRACT_TYPE, CODE_GENDER, AMT_INCOME_TOTAL, AMT_CREDIT,
     AMT_ANNUITY, AMT_GOODS_PRICE, DAYS_EMPLOYED, DAYS_BIRTH, EXT_SOURCE_2,
     EXT_SOURCE_3}

OptionalKeys ==
    {DAYS_ID_PUBLISH, NAME_EDUCATION_TYPE, NAME_FAMILY_STATUS, EXT_SOURCE_1}

Variations ==
    {[kind |-> "none", key |-> <<>>]}
    \cup {[kind |-> "omit", key |-> k] : k \in {DAYS_EMPLOYED, AMT_CREDIT, CODE_GENDER}}
    \cup {[kind |-> "zero", key |-> k] :
             k \in {AMT_INCOME_TOTAL, AMT_CREDIT, AMT_ANNUITY, DAYS_BIRTH}}
    \cup {[kind |-> "null", key |-> k] : k \in {EXT_SOURCE_1, AMT_ANNUITY}}
    \cup {[kind |-> "extra", key |-> ExtraKey]}

Application(contract, gender, employed, absent, var) ==
    LET Sent(f) == /\ f.name \notin absent
                   /\ ~(var.kind = "omit" /\ f.name = var.key)
                   /\ (f.name = ExtraKey => var.kind = "extra")
        kept    == SelectSeq(FullApplication(contract, gender, employed), Sent)
    IN  [i \in DOMAIN kept |->
           IF var.kind = "zero" /\ kept[i].name = var.key THEN Field(var.key, Num(0))
           ELSE IF var.kind = "null" /\ kept[i].name = var.key THEN Field(var.key, NaN)
           ELSE kept[i]]

Contracts == {<<"Cash", " ", "loans">>, <<"Revolving", " ", "loans">>}

Genders == {<<"M">>, <<"F">>, <<"XNA">>}

EmployedDays == {-500, AnomalyValue}

Applications ==
    {Application(c, g, e, a, v) :
        c \in Contracts, g \in Genders, e \in EmployedDays,
        a \in SUBSET OptionalKeys, v \in Variations}

Keys(data) == {data[i].name : i \in DOMAIN data}

Value(data, key) == data[CHOOSE i \in DOMAIN data : data[i].name = key].val

(***************************************************************************)
(* src/app/api.py: LoanApplication (pydantic) and the /predict handler     *)
(***************************************************************************)
LoanApplication ==
    <<SK_ID_CURR, NAME_CONTRACT_TYPE, CODE_GENDER, AMT_INCOME_TOTAL, AMT_CREDIT,
      AMT_ANNUITY, AMT_GOODS_PRICE, DAYS_EMPLOYED, DAYS_BIRTH, EXT_SOURCE_2,
      EXT_SOURCE_3>>

StrFields == {NAME_CONTRACT_TYPE, CODE_GENDER}

\* every declared field is present with a value of its type
Validates(payload) ==
    \A i \in DOMAIN LoanApplication :
        /\ LoanApplication[i] \in Keys(payload)
        /\ Value(payload, LoanApplication[i]).k =
              (IF LoanApplication[i] \in StrFields THEN "str" ELSE "num")

\* application.model_dump(): the declared fields only, in declaration order
model_dump(payload) ==
    [i \in DOMAIN LoanApplication |->
        Field(LoanApplication[i], Value(payload, LoanApplication[i]))]

(***************************************************************************)
(* The loaded artifacts                                                    *)
(***************************************************************************)
NumClassifiers == 3

Classifiers == 0..(NumClassifiers - 1)

\* metadata["features"] of two trainings (X.columns after SK_ID_CURR and
\* TARGET were dropped)
Registries ==
    { << AMT_INCOME_TOTAL, AMT_CREDIT, AMT_ANNUITY, DAYS_EMPLOYED,
         EXT_SOURCE_1, DAYS_EMPLOYED_ANOM, N("CREDIT_TERM"),
         N("ID_TO_AGE_RATIO"), N("NAME_CONTRACT_TYPE_Revolvingloans"),
         N("CODE_GENDER_M") >>,
      << N("CREDIT_TERM"), N("CODE_GENDER_M"), DAYS_EMPLOYED >> }

\* self.model = None, self.features = None
NoModel == -1

NoFeatures == <<>>

\* what the process finds at model_path and meta_path
FileStates == {"ok", "missing", "unreadable"}

\* the artifact files of data/models: the state of each file and, for a file
\* that can be read, what joblib.load returns for it
Disks ==
    {d \in [model_file : FileStates, model : Classifiers \cup {NoModel},
            meta_file  : FileStates, features : Registries \cup {NoFeatures}] :
        /\ d.model_file = "ok" <=> d.model # NoModel
        /\ d.meta_file = "ok" <=> d.features # NoFeatures}

NoLoads == [model |-> 0, metadata |-> 0]

LoadedOnce == [model |-> 1, metadata |-> 1]

(***************************************************************************)
(* State                                                                   *)
(***************************************************************************)
VARIABLES
    model,        \* self.model: the loaded classifier
    features,     \* self.features: metadata["features"]
    via,          \* the caller of predict: "api" (the /predict handler) or "direct"
    data,         \* the argument of predict
    stage,        \* the stage the request is in
    trace,        \* the stages the request has been in, in order
    df,           \* the frame handed from stage to stage
    pd_score,     \* predict: pd_score
    credit_score, \* predict: credit_score
    tier,         \* predict: tier
    decision,     \* predict: decision
    result,       \* the value predict returns
    http,         \* status of the /predict response (0: none)
    unit,         \* the function applied on its own, "none" while serving
    arg,          \* its argument
    out,          \* its result
    out2,         \* the result of applying it to its own result
    upc,          \* how far the application has got
    suspended,    \* the locals of the request of the other worker thread
    disk,         \* the artifact files the process finds
    phase,        \* "Importing" (api.py is being imported), "Serving", "Crashed"
    loads         \* how often joblib.load was called on each artifact

pipeline == <<via, data, stage, trace, df, pd_score, credit_score, tier,
              decision, result, http>>

artifacts == <<model, features>>

units == <<unit, arg, out, out2, upc>>

process == <<disk, phase, loads>>

vars == <<model, features, via, data, stage, trace, df, pd_score, credit_score,
          tier, decision, result, http, unit, arg, out, out2, upc, suspended,
          disk, phase, loads>>

NoResult == [pending |-> TRUE]

NoScore == -1

Terminal == {"Done", "Failed"}

ScoreResultFields ==
    {"probability_default", "credit_score", "risk_tier", "decision", "top_factors"}

IdlePipeline ==
    /\ via = "direct"
    /\ data = <<>>
    /\ stage = "Idle"
    /\ trace = <<"Idle">>
    /\ df = EmptyFrame
    /\ pd_score = NoScore
    /\ credit_score = NoScore
    /\ tier = ""
    /\ decision = ""
    /\ result = NoResult
    /\ http = 0

\* the locals of a thread that handles no request
IdleLocals ==
    [via |-> "direct", data |-> <<>>, stage |-> "Idle", trace |-> <<"Idle">>,
     df |-> EmptyFrame, pd_score |-> NoScore, credit_score |-> NoScore,
     tier |-> "", decision |-> "", result |-> NoResult, http |-> 0]

NoUnit ==
    /\ unit = "none"
    /\ arg = 0
    /\ out = 0
    /\ out2 = 0
    /\ upc = "none"

\* the process starts: api.py is imported, CreditScoringModel() has set its
\* fields to None and has not yet called _load_artifacts
Init ==
    /\ disk \in Disks
    /\ phase = "Importing"
    /\ loads = NoLoads
    /\ model = NoModel
    /\ features = NoFeatures
    /\ IdlePipeline
    /\ suspended = IdleLocals
    /\ NoUnit

(***************************************************************************)
(* model_service = CreditScoringModel(): _load_artifacts                   *)
(***************************************************************************)
\* a constructor that catches the failure of a load and lets the process
\* serve with what it has
load_artifacts_lenient ==
    /\ phase = "Importing"
    /\ phase' = "Serving"
    /\ loads' = LoadedOnce
    /\ model' = disk.model
    /\ features' = disk.features
    /\ UNCHANGED <<disk, pipeline, suspended, units>>

\* os.path.exists(model_path) guards the first load only; a joblib.load that
\* raises, or a missing model file, ends __init__ with an exception, the
\* import of api.py fails and the process does not serve
load_artifacts ==
    /\ phase = "Importing"
    /\ IF disk.model_file = "missing"
       THEN /\ phase' = "Crashed"
            /\ UNCHANGED <<loads, model, features>>
       ELSE IF disk.model_file = "unreadable"
       THEN /\ phase' = "Crashed"
            /\ loads' = [loads EXCEPT !.model = @ + 1]
            /\ UNCHANGED <<model, features>>
       ELSE IF disk.meta_file # "ok"
       THEN /\ phase' = "Crashed"
            /\ loads' = [loads EXCEPT !.model = @ + 1, !.metadata = @ + 1]
            /\ model' = disk.model
            /\ UNCHANGED features
       ELSE /\ phase' = "Serving"
            /\ loads' = [loads EXCEPT !.model = @ + 1, !.metadata = @ + 1]
            /\ model' = disk.model
            /\ features' = disk.features
    /\ UNCHANGED <<disk, pipeline, suspended, units>>

(***************************************************************************)
(* predict, one stage per step                                             *)
(***************************************************************************)
Status(v, res) ==
    IF v # "api" THEN 0 ELSE IF "error" \in DOMAIN res THEN 500 ELSE 200

\* a new request enters the pipeline
Begin(v, d) ==
    /\ via' = v
    /\ data' = d
    /\ stage' = "Cleaning"
    /\ trace' = <<"Idle", "Cleaning">>
    /\ df' = EmptyFrame
    /\ pd_score' = NoScore
    /\ credit_score' = NoScore
    /\ tier' = ""
    /\ decision' = ""
    /\ result' = NoResult
    /\ http' = 0

\* a handler that returns what was computed so far beside the error
Fail_partial(err) ==
    /\ stage' = "Failed"
    /\ trace' = Append(trace, "Failed")
    /\ result' = [error |-> err, credit_score |-> credit_score]
    /\ http' = Status(via, [error |-> err])
    /\ UNCHANGED <<via, data, df, pd_score, credit_score, tier, decision>>

\* except Exception as e: return {"error": str(e)}
Fail(err) ==
    /\ stage' = "Failed"
    /\ trace' = Append(trace, "Failed")
    /\ result' = [error |-> err]
    /\ http' = Status(via, [error |-> err])
    /\ UNCHANGED <<via, data, df, pd_score, credit_score, tier, decision>>

Advance(next) ==
    /\ stage' = next
    /\ trace' = Append(trace, next)

\* model.predict(sample), dashboard or library caller
predict ==
    /\ phase = "Serving"
    /\ stage = "Idle"
    /\ \E d \in Applications : Begin("direct", d)
    /\ UNCHANGED <<artifacts, process, suspended, units>>

\* POST /predict: pydantic rejects the payload (422) or hands the dumped
\* fields to model_service.predict
predict_credit_risk ==
    /\ phase = "Serving"
    /\ stage = "Idle"
    /\ \E payload \in Applications :
          IF Validates(payload)
          THEN Begin("api", model_dump(payload))
          ELSE /\ via' = "api"
               /\ data' = <<>>
               /\ stage' = "Idle"
               /\ trace' = <<"Idle">>
               /\ df' = EmptyFrame
               /\ pd_score' = NoScore
               /\ credit_score' = NoScore
               /\ tier' = ""
               /\ decision' = ""
               /\ result' = NoResult
               /\ http' = 422
    /\ UNCHANGED <<artifacts, process, suspended, units>>

Clean ==
    /\ stage = "Cleaning"
    /\ LET r == run_cleaning_pipeline(DataFrame(data))
       IN  IF r.ok
           THEN /\ Advance("Deriving")
                /\ df' = r.df
                /\ UNCHANGED <<via, data, pd_score, credit_score, tier, decision,
                               result, http>>
           ELSE Fail(r.err)
    /\ UNCHANGED <<artifacts, process, suspended, units>>

Derive ==
    /\ stage = "Deriving"
    /\ LET r == run_feature_engineering(df)
       IN  IF r.ok
           THEN /\ Advance("Aligning")
                /\ df' = r.df
                /\ UNCHANGED <<via, data, pd_score, credit_score, tier, decision,
                               result, http>>
           ELSE Fail(r.err)
    /\ UNCHANGED <<artifacts, process, suspended, units>>

Align ==
    /\ stage = "Aligning"
    /\ LET r == reindex(df, features)
       IN  IF r.ok
           THEN /\ Advance("Scoring")
                /\ df' = r.df
                /\ UNCHANGED <<via, data, pd_score, credit_score, tier, decision,
                               result, http>>
           ELSE Fail(r.err)
    /\ UNCHANGED <<artifacts, process, suspended, units>>

\* predict_proba(df_processed)[0][1]: no row 0 on a frame without rows; on
\* an infinite value xgboost raises or predicts, depending on its version
Score ==
    /\ stage = "Scoring"
    /\ \/ /\ df.nrows > 0
          /\ Advance("Deciding")
          /\ pd_score' = PredictProba(model, df)
          /\ UNCHANGED <<via, data, df, credit_score, tier, decision, result, http>>
       \/ /\ df.nrows = 0
          /\ Fail("IndexError: index 0 is out of bounds")
       \/ /\ df.nrows > 0
          /\ HasInf(df)
          /\ Fail("XGBoostError: Input data contains inf")
    /\ UNCHANGED <<artifacts, process, suspended, units>>

Decide ==
    /\ stage = "Deciding"
    /\ Advance("Explaining")
    /\ credit_score' = CreditScore(pd_score)
    /\ tier' = Tier(pd_score)
    /\ decision' = Decision(pd_score)
    /\ UNCHANGED <<via, data, df, pd_score, result, http>>
    /\ UNCHANGED <<artifacts, process, suspended, units>>

\* an explanation that sorts self.features itself, not a list made of it
Explain_in_place ==
    /\ stage = "Explaining"
    /\ Advance("Done")
    /\ result' = [probability_default |-> Round4(pd_score, ProbScale),
                  credit_score        |-> credit_score,
                  risk_tier           |-> tier,
                  decision            |-> decision,
                  top_factors         |->
                      get_top_factors(features, ShapValues(model, df))]
    /\ http' = Status(via, result')
    /\ features' = LET sorted == SortByAbsDesc(Zip(features, ShapValues(model, df)))
                   IN  [i \in DOMAIN sorted |-> sorted[i].feat]
    /\ UNCHANGED <<via, data, df, pd_score, credit_score, tier, decision>>
    /\ UNCHANGED <<model, process, suspended, units>>

Explain ==
    /\ stage = "Explaining"
    /\ Advance("Done")
    /\ result' = [probability_default |-> Round4(pd_score, ProbScale),
                  credit_score        |-> credit_score,
                  risk_tier           |-> tier,
                  decision            |-> decision,
                  top_factors         |->
                      get_top_factors(features, ShapValues(model, df))]
    /\ http' = Status(via, result')
    /\ UNCHANGED <<via, data, df, pd_score, credit_score, tier, decision>>
    /\ UNCHANGED <<artifacts, process, suspended, units>>

\* predict has returned: its locals are gone, the next request can enter
Return ==
    /\ stage \in Terminal
    /\ via' = "direct"
    /\ data' = <<>>
    /\ stage' = "Idle"
    /\ trace' = <<"Idle">>
    /\ df' = EmptyFrame
    /\ pd_score' = NoScore
    /\ credit_score' = NoScore
    /\ tier' = ""
    /\ decision' = ""
    /\ result' = NoResult
    /\ http' = 0
    /\ UNCHANGED <<artifacts, process, suspended, units>>

Next ==
    \/ load_artifacts
    \/ predict
    \/ predict_credit_risk
    \/ Clean
    \/ Derive
    \/ Align
    \/ Score
    \/ Decide
    \/ Explain
    \/ Return

Spec == Init /\ [][Next]_vars

(***************************************************************************)
(* Two requests on one loaded model: the handlers of api.py are plain      *)
(* functions, which the server runs on worker threads that share           *)
(* model_service.  The pipeline variables are the locals of the thread     *)
(* that runs, suspended those of the thread that waits; Switch lets the    *)
(* other thread run.                                                       *)
(***************************************************************************)
ThreadApplications ==
    {Application(<<"Cash", " ", "loans">>, g, e, {}, v) :
        g \in {<<"M">>, <<"XNA">>}, e \in EmployedDays,
        v \in {[kind |-> "none", key |-> <<>>],
               [kind |-> "zero", key |-> AMT_ANNUITY]}}

\* model_service.predict(d) called by the running thread
predict_threaded ==
    /\ phase = "Serving"
    /\ stage = "Idle"
    /\ \E d \in ThreadApplications : Begin("direct", d)
    /\ UNCHANGED <<artifacts, process, suspended, units>>

Locals ==
    [via |-> via, data |-> data, stage |-> stage, trace |-> trace, df |-> df,
     pd_score |-> pd_score, credit_score |-> credit_score, tier |-> tier,
     decision |-> decision, result |-> result, http |-> http]

\* the running thread is suspended and the other thread runs
Switch ==
    /\ phase = "Serving"
    /\ suspended # Locals
    /\ suspended' = Locals
    /\ via' = suspended.via
    /\ data' = suspended.data
    /\ stage' = suspended.stage
    /\ trace' = suspended.trace
    /\ df' = suspended.df
    /\ pd_score' = suspended.pd_score
    /\ credit_score' = suspended.credit_score
    /\ tier' = suspended.tier
    /\ decision' = suspended.decision
    /\ result' = suspended.result
    /\ http' = suspended.http
    /\ UNCHANGED <<artifacts, process, units>>

ThreadedNext ==
    \/ load_artifacts
    \/ predict_threaded
    \/ Clean
    \/ Derive
    \/ Align
    \/ Score
    \/ Decide
    \/ Explain
    \/ Return
    \/ Switch

ThreadedSpec == Init /\ [][ThreadedNext]_vars

(***************************************************************************)
(* The functions on their own: run_cleaning_pipeline on a batch (the       *)
(* training use, and a second cleaning of its result), the decision of     *)
(* predict on a probability, _get_top_factors on a vector of               *)
(* contributions.                                                          *)
(***************************************************************************)
MaxRows == 2

MaxFeatures == 6

ProbSteps == 100

BatchRows ==
    [emp    : {Num(-500), Num(AnomalyValue)},
     gender : {Str(<<"M">>), XNA},
     ext    : {Rat(1, 2), NaN}]

BatchFrame(rows) ==
    [nrows |-> Len(rows),
     cols  |-> << [name  |-> DAYS_EMPLOYED, dtype |-> "num",
                   cells |-> [i \in DOMAIN rows |-> rows[i].emp]],
                  [name  |-> CODE_GENDER, dtype |-> "object",
                   cells |-> [i \in DOMAIN rows |-> rows[i].gender]],
                  [name  |-> EXT_SOURCE_1, dtype |-> "num",
                   cells |-> [i \in DOMAIN rows |-> rows[i].ext]] >>]

Batches ==
    {BatchFrame(rows) : rows \in UNION {[1..n -> BatchRows] : n \in 1..MaxRows}}

FeatureName(i) == N("FEATURE_" \o ToString(i))

ShapSample == {-30, 0, 3, 30}

Contributions ==
    {[features |-> [i \in DOMAIN v |-> FeatureName(i)], vals |-> v] :
        v \in UNION {[1..n -> ShapSample] : n \in 1..MaxFeatures}}

Probabilities ==
    {k * (ProbScale \div ProbSteps) : k \in 0..ProbSteps} \cup Range(ProbTable)

\* two probabilities, the smaller first
ProbabilityPairs ==
    {pp \in Probabilities \X Probabilities : pp[1] <= pp[2]}

UnitInit ==
    /\ model = 0
    /\ features = CHOOSE r \in Registries : Len(r) = 3
    /\ disk = [model_file |-> "ok", model |-> model,
               meta_file |-> "ok", features |-> features]
    /\ phase = "Serving"
    /\ loads = LoadedOnce
    /\ IdlePipeline
    /\ suspended = IdleLocals
    /\ \/ unit = "clean" /\ arg \in Batches
       \/ unit = "explain" /\ arg \in Contributions
       \/ unit = "decide" /\ arg \in Probabilities
       \/ unit = "score" /\ arg \in ProbabilityPairs
    /\ out = 0
    /\ out2 = 0
    /\ upc = "input"

ApplyClean ==
    /\ unit = "clean"
    /\ upc = "input"
    /\ out' = run_cleaning_pipeline(arg)
    /\ upc' = "applied"
    /\ UNCHANGED <<unit, arg, out2, artifacts, process, suspended,
                   pipeline>>

ApplyCleanAgain ==
    /\ unit = "clean"
    /\ upc = "applied"
    /\ out.ok
    /\ out2' = run_cleaning_pipeline(out.df)
    /\ upc' = "reapplied"
    /\ UNCHANGED <<unit, arg, out, artifacts, process, suspended,
                   pipeline>>

ApplyDecide ==
    /\ unit = "decide"
    /\ upc = "input"
    /\ out' = [credit_score |-> CreditScore(arg),
               risk_tier    |-> Tier(arg),
               decision     |-> Decision(arg)]
    /\ upc' = "applied"
    /\ UNCHANGED <<unit, arg, out2, artifacts, process, suspended,
                   pipeline>>

\* the credit score of predict for each of two probabilities
ApplyScore ==
    /\ unit = "score"
    /\ upc = "input"
    /\ out' = <<CreditScore(arg[1]), CreditScore(arg[2])>>
    /\ upc' = "applied"
    /\ UNCHANGED <<unit, arg, out2, artifacts, process, suspended,
                   pipeline>>

ApplyExplain ==
    /\ unit = "explain"
    /\ upc = "input"
    /\ out' = get_top_factors(arg.features, arg.vals)
    /\ upc' = "applied"
    /\ UNCHANGED <<unit, arg, out2, artifacts, process, suspended,
                   pipeline>>

UnitNext ==
    \/ ApplyClean
    \/ ApplyCleanAgain
    \/ ApplyDecide
    \/ ApplyScore
    \/ ApplyExplain

UnitSpec == UnitInit /\ [][UnitNext]_vars

(***************************************************************************)
(* Properties                                                              *)
(***************************************************************************)
StageOrder ==
    <<"Idle", "Cleaning", "Deriving", "Aligning", "Scoring", "Deciding",
      "Explaining", "Done">>

Preprocessing == {"Cleaning", "Deriving", "Aligning"}

Aligned == {"Scoring", "Deciding", "Explaining", "Done"}

\* the stage in which the request failed
FailedAt == trace[Len(trace) - 1]

\* a RawApplication: every required key with a value of its type, gender M
\* or F, and any subset of the optional keys
ValidApplication(d) ==
    /\ RequiredKeys \subseteq Keys(d)
    /\ Keys(d) \subseteq RequiredKeys \cup OptionalKeys
    /\ \A i \in DOMAIN d :
          d[i].val.k = (IF d[i].name \in StrFields \cup {NAME_EDUCATION_TYPE,
                                                         NAME_FAMILY_STATUS}
                        THEN "str" ELSE "num")
    /\ Value(d, CODE_GENDER) \in {Str(<<"M">>), Str(<<"F">>)}

\* C1: for every application with all required keys and any subset of the
\* optional keys, preprocessing (clean, derive, align) does not fail and the
\* aligned frame has exactly the names of the registry, in its order.
C1_PreprocessingTotal ==
    (stage # "Idle" /\ ValidApplication(data)) =>
        /\ ~(stage = "Failed" /\ FailedAt \in Preprocessing)
        /\ (stage \in Aligned => Names(df) = features)

\* the frame a is the frame d aligned to the registry
AlignedFrom(d, a) ==
    /\ a.nrows = d.nrows
    /\ Len(a.cols) = Len(features)
    /\ \A i \in DOMAIN features :
          /\ a.cols[i].name = features[i]
          /\ Len(a.cols[i].cells) = d.nrows
          /\ \A r \in 1..d.nrows :
                a.cols[i].cells[r] =
                    (IF \E c \in DOMAIN d.cols : d.cols[c].name = features[i]
                     THEN d.cols[CHOOSE c \in DOMAIN d.cols :
                                    d.cols[c].name = features[i]].cells[r]
                     ELSE Num(0))
    /\ \A i, j \in DOMAIN a.cols : a.cols[i].name = a.cols[j].name => i = j
    /\ \A c \in DOMAIN d.cols :
          (\A i \in DOMAIN features : features[i] # d.cols[c].name) =>
              \A i \in DOMAIN a.cols : a.cols[i].name # d.cols[c].name

\* C2: whenever the align step returns, its vector has exactly the names of
\* the registry, each once and in registry order; a name carries the derived
\* value when the derived frame has it and 0 when it has not; a derived name
\* outside the registry is absent.
C2_AlignMatchesRegistry ==
    [][(stage = "Aligning" /\ stage' = "Scoring") => AlignedFrom(df, df')]_vars

\* an aligned vector in which SK_ID_CURR was dropped, CODE_GENDER_M was filled
\* with 0 and DAYS_EMPLOYED carries the derived value
C2_Witness ==
    /\ stage = "Scoring"
    /\ SK_ID_CURR \in Keys(data)
    /\ ~HasCol(df, SK_ID_CURR)
    /\ HasCol(df, N("CODE_GENDER_M"))
    /\ Cells(df, N("CODE_GENDER_M")) = <<Num(0)>>
    /\ HasCol(df, DAYS_EMPLOYED)
    /\ Cells(df, DAYS_EMPLOYED) = <<Num(-500)>>

Decided == unit = "decide" /\ upc = "applied"

\* C3 (as claimed): the credit score is (1 - p) * 1000 rounded to the nearest
\* integer, within [0, 1000]; 0.0734 gives 927.
C3_ScoreIsRounded ==
    Decided =>
        /\ out.credit_score = RoundHalfEven((ProbScale - arg) * 1000, ProbScale)
        /\ out.credit_score \in 0..1000
        /\ (arg = 73400 => out.credit_score = 927)

\* C3 (amended): the credit score is (1 - p) * 1000 truncated toward zero,
\* the largest integer not above it; it lies in [0, 1000]; 0.0734 gives 926.
C3_ScoreIsTruncated ==
    Decided =>
        /\ out.credit_score \in 0..1000
        /\ out.credit_score * ProbScale <= (ProbScale - arg) * 1000
        /\ (ProbScale - arg) * 1000 < (out.credit_score + 1) * ProbScale
        /\ (arg = 73400 => out.credit_score = 926)

C3_Witness == Decided /\ arg = 73400 /\ out.credit_score = 926

\* C4: the decision step returns (Low, APPROVE) when p < 0.20, (Medium,
\* MANUAL REVIEW) when 0.20 <= p < 0.50 and (High, REJECT) when p >= 0.50,
\* and no other pair; 0.199999 is Low, 0.2 Medium, 0.499999 Medium, 0.5 High.
C4_TierThresholds ==
    Decided =>
        /\ <<out.risk_tier, out.decision>> \in
              {<<"Low Risk", "APPROVE">>, <<"Medium Risk", "MANUAL REVIEW">>,
               <<"High Risk", "REJECT">>}
        /\ out.risk_tier = "Low Risk" <=> 100 * arg < 20 * ProbScale
        /\ out.risk_tier = "High Risk" <=> 100 * arg >= 50 * ProbScale
        /\ (arg = 199999 => out.risk_tier = "Low Risk")
        /\ (arg = 200000 => out.risk_tier = "Medium Risk")
        /\ (arg = 499999 => out.risk_tier = "Medium Risk")
        /\ (arg = 500000 => out.risk_tier = "High Risk")

C4_Witness ==
    Decided /\ arg = 200000 /\ out.risk_tier = "Medium Risk"
            /\ out.decision = "MANUAL REVIEW"

IsPrefix(s, t) == Len(s) <= Len(t) /\ \A i \in DOMAIN s : s[i] = t[i]

\* C5: a request is in the stages Idle, Cleaning, ..., Done in this order,
\* each at most once; a failure leads from the failing stage directly to
\* Failed and nothing runs after it; Done carries the five ScoreResult fields
\* and no error, Failed carries the error only, and no result exists before.
C5_LinearStages ==
    /\ stage = trace[Len(trace)]
    /\ \/ IsPrefix(trace, StageOrder)
       \/ /\ stage = "Failed"
          /\ Len(trace) >= 3
          /\ IsPrefix(SubSeq(trace, 1, Len(trace) - 1), StageOrder)
          /\ FailedAt \notin {"Idle", "Done"}
    /\ stage = "Done" => DOMAIN result = ScoreResultFields
    /\ stage = "Failed" => DOMAIN result = {"error"}
    /\ stage \notin Terminal => result = NoResult

C5_Witness ==
    /\ stage = "Failed"
    /\ trace = <<"Idle", "Cleaning", "Deriving", "Failed">>
    /\ DOMAIN result = {"error"}

\* C6: a record with CODE_GENDER = "XNA" is rejected by the cleaning stage:
\* the request fails at Cleaning and no later stage runs on it.
C6_XnaRejectedAtCleaning ==
    (stage # "Idle" /\ CODE_GENDER \in Keys(data)
                    /\ Value(data, CODE_GENDER) = XNA) =>
        /\ stage \in {"Cleaning", "Failed"}
        /\ (stage = "Failed" => trace = <<"Idle", "Cleaning", "Failed">>)

\* C7: the cleaned record of an application with DAYS_EMPLOYED = 365243 has
\* DAYS_EMPLOYED_ANOM = 1 and still has DAYS_EMPLOYED, holding the missing
\* marker; for any other value it has DAYS_EMPLOYED_ANOM = 0 and
\* DAYS_EMPLOYED unchanged.
C7_AnomalyNormalized ==
    (stage = "Deriving" /\ df.nrows = 1) =>
        /\ HasCol(df, DAYS_EMPLOYED_ANOM)
        /\ HasCol(df, DAYS_EMPLOYED)
        /\ IF Value(data, DAYS_EMPLOYED) = Num(AnomalyValue)
           THEN /\ Cells(df, DAYS_EMPLOYED_ANOM) = <<Num(1)>>
                /\ IsNull(Cells(df, DAYS_EMPLOYED)[1])
           ELSE /\ Cells(df, DAYS_EMPLOYED_ANOM) = <<Num(0)>>
                /\ Cells(df, DAYS_EMPLOYED) = <<Value(data, DAYS_EMPLOYED)>>

\* C8: cleaning is idempotent: cleaning a cleaned frame returns it unchanged.
C8_CleanIdempotent ==
    (unit = "clean" /\ upc = "reapplied") => out2 = out

Explained == unit = "explain" /\ upc = "applied"

\* the position in the registry of the feature of entry k, and its
\* contribution
EntryIndex(k) == CHOOSE i \in DOMAIN arg.features : arg.features[i] = out[k].feature

EntryValue(k) == arg.vals[EntryIndex(k)]

\* entry i ranks before entry j: larger magnitude, or the same magnitude and
\* earlier in the registry
Before(i, j) ==
    \/ Abs(arg.vals[i]) > Abs(arg.vals[j])
    \/ Abs(arg.vals[i]) = Abs(arg.vals[j]) /\ i < j

Scored == unit = "score" /\ upc = "applied"

\* C11: the credit score is non-increasing in the probability: for all
\* p1 <= p2 in [0, 1] the score of p1 is at least the score of p2; the score
\* of 0 is 1000 and the score of 1 is 0.
C11_ScoreMonotone ==
    Scored =>
        /\ arg[1] <= arg[2] => out[1] >= out[2]
        /\ \A i \in 1..2 : arg[i] = 0 => out[i] = 1000
        /\ \A i \in 1..2 : arg[i] = ProbScale => out[i] = 0

\* the two ends of the range
C11_Witness == Scored /\ arg = <<0, ProbScale>> /\ out = <<1000, 0>>

\* a request is being handled, or has been answered
Handling == stage # "Idle" \/ http # 0

\* C12: the classifier and the feature metadata are loaded exactly once, by
\* the construction of the scoring component and before any request is
\* handled; when either artifact file is missing or unreadable the
\* construction fails and the process never handles a request; handling a
\* request never loads an artifact again.
C12_LoadedOnceAtConstruction ==
    /\ [](Handling => /\ phase = "Serving"
                      /\ loads = LoadedOnce
                      /\ model = disk.model
                      /\ features = disk.features)
    /\ []((disk.model_file # "ok" \/ disk.meta_file # "ok") =>
             phase # "Serving" /\ ~Handling)
    /\ [][phase = "Serving" =>
             /\ phase' = "Serving"
             /\ loads' = loads
             /\ UNCHANGED <<artifacts, disk>>]_vars

\* a request has been served by a process that loaded each artifact once
C12_Witness ==
    /\ stage = "Done"
    /\ phase = "Serving"
    /\ loads = LoadedOnce
    /\ model = disk.model
    /\ features = disk.features

\* the categorical attributes of an application
Categoricals ==
    {NAME_CONTRACT_TYPE, CODE_GENDER, NAME_EDUCATION_TYPE, NAME_FAMILY_STATUS}

\* the name of the indicator column of value v of attribute a
Indicator(a, v) == CleanName(a \o <<"_">> \o v)

\* C13: in the vector of a single record, an indicator column A_v of the
\* registry is 1 when the record has A = v and 0 otherwise; all indicator
\* columns of A are 0 only for the category that has no column in the
\* registry (the reference category of the training).
C13_TrainingReferenceCategory ==
    (stage = "Scoring" /\ df.nrows = 1) =>
        \A a \in Categoricals \cap Keys(data) : \A v \in Range(CategoryOrder) :
            Indicator(a, v) \in Range(features) =>
                Cells(df, Indicator(a, v)) =
                    <<IF Value(data, a) = Str(v) THEN Num(1) ELSE Num(0)>>

\* the value of key k is missing in the cleaned record of the application:
\* sent as null, or DAYS_EMPLOYED sent as the anomaly value
MissingAfterCleaning(k) ==
    \/ IsNull(Value(data, k))
    \/ k = DAYS_EMPLOYED /\ Value(data, k) = Num(AnomalyValue)

\* C14: serving-time cleaning removes no attribute of the single record
\* because its value is missing; a missing value of a registry feature
\* (DAYS_EMPLOYED after the 365243 correction, a null optional attribute)
\* is missing in the aligned vector, not the fill value 0.
C14_NoMissingRateDropAtServing ==
    /\ (stage = "Deriving" /\ df.nrows = 1) =>
           \A k \in Keys(data) : HasCol(df, k)
    /\ (stage = "Scoring" /\ df.nrows = 1) =>
           \A i \in DOMAIN features :
               (features[i] \in Keys(data) /\ MissingAfterCleaning(features[i])) =>
                   IsNull(Cells(df, features[i])[1])

\* two distinct keys of the application have the same normalized name
Collides(d) ==
    \E i, j \in DOMAIN d :
        d[i].name # d[j].name /\ CleanName(d[i].name) = CleanName(d[j].name)

\* C15: when two distinct names have the same normalized name, the derive
\* stage rejects the request; the frame the derive stage returns never has
\* one name twice.
C15_CollisionRejectedAtDerive ==
    /\ stage = "Aligning" => ~HasDuplicates(Names(df))
    /\ (stage # "Idle" /\ Collides(data)) =>
           /\ stage \in {"Cleaning", "Deriving", "Failed"}
           /\ stage = "Failed" => FailedAt \in {"Cleaning", "Deriving"}

\* the ratio features and their operands
Ratios ==
    << [name |-> N("CREDIT_INCOME_PERCENT"), num |-> AMT_CREDIT,
        den |-> AMT_INCOME_TOTAL],
       [name |-> N("ANNUITY_INCOME_PERCENT"), num |-> AMT_ANNUITY,
        den |-> AMT_INCOME_TOTAL],
       [name |-> N("CREDIT_TERM"), num |-> AMT_CREDIT, den |-> AMT_ANNUITY],
       [name |-> N("GOODS_LOAN_RATIO"), num |-> AMT_GOODS_PRICE,
        den |-> AMT_CREDIT] >>

RatioOperands == {AMT_INCOME_TOTAL, AMT_ANNUITY, AMT_CREDIT, DAYS_BIRTH}

\* the quotient of the two operands as the application has them: non-finite
\* on a zero denominator, missing on a missing operand
RatioOf(r) == Div(Value(data, r.num), Value(data, r.den))

ZeroOperand ==
    \E k \in RatioOperands \cap Keys(data) : Value(data, k) = Num(0)

MissingOperand ==
    \E k \in RatioOperands \cap Keys(data) : IsNull(Value(data, k))

\* the derive stage does not fail, and every ratio feature of the derived
\* and of the aligned record is the quotient of its operands
RatiosPropagate ==
    /\ ~(stage = "Failed" /\ FailedAt = "Deriving")
    /\ (stage = "Aligning" /\ df.nrows = 1) =>
           \A i \in DOMAIN Ratios :
               /\ HasCol(df, Ratios[i].name)
               /\ Cells(df, Ratios[i].name) = <<RatioOf(Ratios[i])>>
    /\ (stage = "Scoring" /\ df.nrows = 1) =>
           \A i \in DOMAIN Ratios :
               Ratios[i].name \in Range(features) =>
                   Cells(df, Ratios[i].name) = <<RatioOf(Ratios[i])>>

\* C16: an operand of a ratio feature that is 0 or missing does not make the
\* derive stage fail: the ratio is non-finite or missing, the other ratios
\* are computed normally, and alignment hands the value on unchanged.
C16_DegenerateOperandsPropagate ==
    (/\ stage # "Idle"
     /\ Range(DomainInputs) \subseteq Keys(data)
     /\ ZeroOperand \/ MissingOperand) => RatiosPropagate

\* the ScoreResult of predict for probability p and contributions vals
ScoreResult(names, p, vals) ==
    [probability_default |-> Round4(p, ProbScale),
     credit_score        |-> CreditScore(p),
     risk_tier           |-> Tier(p),
     decision            |-> Decision(p),
     top_factors         |-> get_top_factors(names, vals)]

\* what predict(d) can return on classifier m and registry names, called on
\* its own: the error of the preprocessing, the error of the classifier, or
\* the ScoreResult
PredictOutcomes(m, names, d) ==
    LET r == preprocess_input(d, names)
    IN  IF ~r.ok THEN {[error |-> r.err]}
        ELSE IF r.df.nrows = 0
        THEN {[error |-> "IndexError: index 0 is out of bounds"]}
        ELSE {ScoreResult(names, PredictProba(m, r.df), ShapValues(m, r.df))}
             \cup (IF HasInf(r.df)
                   THEN {[error |-> "XGBoostError: Input data contains inf"]}
                   ELSE {})

\* C17: no request changes the loaded classifier or the feature list, nor
\* the mapping it was called with; under every interleaving of two requests
\* on one loaded model, and after any requests before them, each request
\* returns what predict returns for its input when called on its own.
C17_RequestsIndependent ==
    /\ [](stage \in Terminal =>
             result \in PredictOutcomes(disk.model, disk.features, data))
    /\ [](suspended.stage \in Terminal =>
             suspended.result \in
                 PredictOutcomes(disk.model, disk.features, suspended.data))
    /\ [][phase = "Serving" => UNCHANGED artifacts]_vars
    /\ [][(stage # "Idle" /\ stage' # "Idle" /\ suspended' = suspended) =>
             data' = data]_vars

\* a request has returned its result while a request for another input was
\* suspended between its stages, and both have the loaded artifacts
C17_Witness ==
    /\ stage = "Done"
    /\ suspended.stage = "Explaining"
    /\ suspended.data # data
    /\ artifacts = <<disk.model, disk.features>>

\* the thresholds in the unit of the reported probability, 1/10000
ReportedLow == LowThreshold \div (ProbScale \div 10000)

ReportedMedium == MediumThreshold \div (ProbScale \div 10000)

\* C18 (as claimed): no successful result has probability_default >= 0.2
\* with Low Risk or APPROVE, nor probability_default >= 0.5 with Medium Risk
\* or MANUAL REVIEW.
C18_TierOfReportedProbability ==
    stage = "Done" =>
        /\ ~(/\ result.probability_default >= ReportedLow
             /\ result.risk_tier = "Low Risk" \/ result.decision = "APPROVE")
        /\ ~(/\ result.probability_default >= ReportedMedium
             /\ \/ result.risk_tier = "Medium Risk"
                \/ result.decision = "MANUAL REVIEW")

\* C18 (amended): tier and decision of a successful result follow from the
\* probability before rounding (< 0.2 Low and APPROVE, < 0.5 Medium and
\* MANUAL REVIEW, else High and REJECT); probability_default is that
\* probability rounded to the nearest 4-decimal value, so it is at most 0.2
\* with Low Risk, within [0.2, 0.5] with Medium Risk and at least 0.5 with
\* High Risk: 0.2 can go with Low Risk and 0.5 with Medium Risk.
C18_TierOfUnroundedProbability ==
    stage = "Done" =>
        /\ <<result.risk_tier, result.decision>> \in
              {<<"Low Risk", "APPROVE">>, <<"Medium Risk", "MANUAL REVIEW">>,
               <<"High Risk", "REJECT">>}
        /\ result.risk_tier = "Low Risk" <=> 100 * pd_score < 20 * ProbScale
        /\ result.risk_tier = "High Risk" <=> 100 * pd_score >= 50 * ProbScale
        /\ 2 * Abs(pd_score - result.probability_default * (ProbScale \div 10000))
              <= ProbScale \div 10000
        /\ result.risk_tier = "Low Risk" =>
              result.probability_default <= ReportedLow
        /\ result.risk_tier = "Medium Risk" =>
              /\ result.probability_default >= ReportedLow
              /\ result.probability_default <= ReportedMedium
        /\ result.risk_tier = "High Risk" =>
              result.probability_default >= ReportedMedium

\* a probability of 0.199999: reported as 0.2 with Low Risk and APPROVE
C18_Witness ==
    /\ stage = "Done"
    /\ pd_score = 199999
    /\ result.probability_default = ReportedLow
    /\ result.risk_tier = "Low Risk"
    /\ result.decision = "APPROVE"

=============================================================================
